---- MODULE Spec2Model ----
(***************************************************************************)
(* EarCV: main() of main.py from the find ears module to the feature loop  *)
(* (Spec), its colour correction and pixels-per-metric modules (SpecFront), *)
(* and the kernel-row analysis of krn.py (SpecSmooth, SpecKrn).            *)
(*                                                                         *)
(* Real quantities (COV, convexity) are integers in thousandths: 0.35 is   *)
(* 350, 0.87 is 870, 0.04 is 40, 0.001 is 1.  A mask is represented by the *)
(* sequence of morphological openings applied to the mask it started from. *)
(***************************************************************************)
EXTENDS Integers, Sequences, FiniteSets, TLC

None == -1              \* Python's None where a number is expected
Unbound == -2           \* a local name of main() that has not been assigned
Absent == <<>>          \* an option the caller did not give (None)

\* ---- bounds of the model -------------------------------------------------
MaxEars == 2            \* most regions the filter lets pass

\* ---- values the inputs are drawn from ------------------------------------
CovValues == {300, 350, 400}                    \* area COV of >= 2 regions
EarCleanupArgs == {Absent, <<200, 3>>, <<500, 2>>} \* -clnup maxCOV maxIterations
SilkCleanupArgs == {Absent, <<20, 3>>}            \* -slk minDelta maxIterations
ConvexityValues == {830, 870, 900}              \* convexity of an ear's b channel

VARIABLES
    pc,               \* position in main(): the module about to run
    raised,           \* Absent, or the exception that ended main()
    args,             \* parsed command line: ear_cleanup, silk_cleanup,
                      \* no_proof (Spec); color_checker, pixelspermetric,
                      \* no_save, debug (SpecFront)
    log,              \* records written by the ear clean-up module
    filtered,         \* the filtered mask, as the openings applied to bkgrnd
    ear_number,       \* regions passing the filter
    cov,              \* area COV of filtered, None when undefined
    cov_calls,        \* calls of find_ears.calculate_area_cov so far
    max_cov, max_iterations, i,
    ears,             \* the mask the ears are cut from (line 380)
    number_of_ears, n, final_ear_masks,
    convexity,        \* baseline convexity of the current ear
    b_chnnl,          \* current ear's b channel, as the openings applied to it
    conv_var, i_var, delta_conv,
    convexity2,       \* convexity after the latest opening of a b channel
    shown,            \* windows displayed on screen so far (cv2.imshow)
    \* main(): the colour correction and pixels-per-metric modules
    reff_fullpath,    \* path of the reference colour checker image
    tar_chk,          \* Unbound, or the colour checker found in the image
    color_proof,      \* the colour correction panel of the proof
    color_csv,        \* rows appended to color_correction.csv
    PixelsPerMetric,
    ppm_source,       \* what ppm.ppm_square was run on
    ppm_csv,          \* rows appended to pixelspermetric.csv
    \* krn(): the fine smoothing loop of one band (lines 146-162)
    spc,              \* position in the loop
    x_len,            \* len(x), the columns of the band's signal
    c_len,            \* len(c), the valleys found in the band
    u,                \* the next smoothing window
    \* krn(): the bands and the consensus of their valleys (lines 96-268)
    kpc,              \* position in krn()
    kraised,          \* Absent, or the exception that ended krn()
    band,             \* bands processed so far (the loop of line 111)
    dis_kernel, all_peaks, all_peaks_diff_med, clustered_list,
    all_peaks_final, all_peaks_final_temp,
    num_peaks_iter, threshold, num_exec,
    returned          \* Absent, or the tuple krn() returns

mainVars == <<pc, raised, args, log, filtered, ear_number, cov, cov_calls,
              max_cov, max_iterations, i, ears, number_of_ears, n,
              final_ear_masks, convexity, b_chnnl, conv_var, i_var, delta_conv,
              convexity2, shown>>

frontVars == <<reff_fullpath, tar_chk, color_proof, color_csv,
               PixelsPerMetric, ppm_source, ppm_csv>>

smoothVars == <<spc, x_len, c_len, u>>

krnVars == <<kpc, kraised, band, dis_kernel, all_peaks, all_peaks_diff_med,
             clustered_list, all_peaks_final, all_peaks_final_temp,
             num_peaks_iter, threshold, num_exec, returned>>

vars == <<mainVars, frontVars, smoothVars, krnVars>>

clnupVars == <<log, filtered, ear_number, cov, cov_calls, max_cov, max_iterations>>
silkVars == <<number_of_ears, n, final_ear_masks, convexity, b_chnnl,
              conv_var, i_var, delta_conv, convexity2, shown>>

\* ---- helpers --------------------------------------------------------------

\* cv2.morphologyEx(mask, MORPH_OPEN, getStructuringElement(MORPH_RECT,
\* (size,size)), iterations=iters): the mask with one more opening applied
MorphOpen(mask, size, iters) ==
    Append(mask, [size |-> size, iterations |-> iters])

\* find_ears.calculate_area_cov: stdev/mean of the region areas, undefined
\* (None) on fewer than two regions
CovOf(regions, c) == IF regions < 2 THEN None ELSE c

\* what find_ears.filter followed by calculate_area_cov can return
FilterResults ==
    { <<e, CovOf(e, c)>> : e \in 0..MaxEars, c \in CovValues }

Info(msg, c) == [level |-> "INFO", msg |-> msg, cov |-> c]
Warn(msg, c) == [level |-> "WARNING", msg |-> msg, cov |-> c]

\* `ears = img.copy(); ears[filtered == 0] = 0`: the image under a mask
MaskedBy(mask) == mask

\* `elif cov > 0.35:` the default clean-up module is triggered
DefaultCleanupTriggered(c) == c > 350

\* `while cov > max_cov and i <= max_iterations:`
CleanupContinuesShort(c, mc, it, mi) == c > mc /\ it < mi

CleanupContinues(c, mc, it, mi) == c > mc /\ it <= mi

\* `if convexity < 0.87:` the default silk clean-up is triggered
DefaultSilkTriggered(cvx) == cvx < 870

\* `if convexity < 0.87 or args.silk_cleanup is not None:`
SilkLoopEnteredBoth(cvx, slk) == cvx < 870 /\ slk # Absent

SilkLoopEntered(cvx, slk) == cvx < 870 \/ slk # Absent

\* `delta_conv < conv_var`, the left operand of the silk loop's test
SilkDeltaSmall(d, cv) == d < cv

\* `i <= i_var`, the right operand of the silk loop's test
SilkBudgetLeft(it, iv) == it <= iv

\* `cv2.getStructuringElement(cv2.MORPH_RECT, (i,i))` of the clean-up loop
CleanupKernelSizeFixed(it) == 1

CleanupKernelSize(it) == it

\* `iterations=i` of the clean-up loop
CleanupKernelIterations(it) == it

\* `cv2.getStructuringElement(cv2.MORPH_RECT, (2+i,2+i))` of the silk loop
SilkKernelSizeFixed(it) == 3

SilkKernelSize(it) == 2 + it

\* `iterations=1+i` of the silk loop
SilkKernelIterations(it) == 1 + it

\* `delta_conv = convexity2-convexity`
DeltaConv(cvx2, cvx) == cvx2 - cvx

Raise(type, line) == <<type, line>>

\* ---- main(): find ears module ---------------------------------------------

\* the locals of main() from the find ears module on are not assigned
MainLocalsUnbound ==
    /\ log = <<>>
    /\ filtered = <<>>
    /\ ears = <<>>
    /\ final_ear_masks = <<>>
    /\ b_chnnl = <<>>
    /\ cov = None
    /\ cov_calls = 0
    /\ ear_number = Unbound /\ max_cov = Unbound /\ max_iterations = Unbound
    /\ i = Unbound /\ number_of_ears = Unbound /\ n = Unbound
    /\ convexity = Unbound /\ conv_var = Unbound /\ i_var = Unbound
    /\ delta_conv = Unbound /\ convexity2 = Unbound
    /\ shown = 0

\* the locals of the colour correction and pixels-per-metric modules are not
\* assigned
FrontIdle ==
    /\ reff_fullpath = <<>>
    /\ tar_chk = Unbound
    /\ color_proof = "unbound"
    /\ color_csv = 0
    /\ PixelsPerMetric = Unbound
    /\ ppm_source = "unbound"
    /\ ppm_csv = 0

\* main() is not running
MainIdle ==
    /\ pc = "idle"
    /\ raised = Absent
    /\ args = [ear_cleanup |-> Absent, silk_cleanup |-> Absent,
               no_proof |-> FALSE]
    /\ MainLocalsUnbound
    /\ FrontIdle

\* the fine smoothing loop is not running
SmoothIdle ==
    /\ spc = "idle"
    /\ x_len = Unbound /\ c_len = Unbound /\ u = Unbound

\* krn() is not running
KrnIdle ==
    /\ kpc = "idle"
    /\ kraised = Absent
    /\ band = Unbound
    /\ dis_kernel = <<>> /\ all_peaks = <<>> /\ clustered_list = <<>>
    /\ all_peaks_final = <<>> /\ all_peaks_final_temp = <<>>
    /\ all_peaks_diff_med = Unbound
    /\ num_peaks_iter = Unbound /\ threshold = Unbound /\ num_exec = Unbound
    /\ returned = Absent

Init ==
    /\ SmoothIdle
    /\ KrnIdle
    /\ FrontIdle
    /\ pc = "find_ears"
    /\ raised = Absent
    /\ args \in [ear_cleanup : EarCleanupArgs, silk_cleanup : SilkCleanupArgs,
                 no_proof : BOOLEAN]
    /\ log = <<>>
    /\ filtered = <<>>
    /\ ear_number = Unbound
    /\ cov = None
    /\ cov_calls = 0
    /\ max_cov = Unbound
    /\ max_iterations = Unbound
    /\ i = Unbound
    /\ ears = <<>>
    /\ number_of_ears = Unbound
    /\ n = Unbound
    /\ final_ear_masks = <<>>
    /\ convexity = Unbound
    /\ b_chnnl = <<>>
    /\ conv_var = Unbound
    /\ i_var = Unbound
    /\ delta_conv = Unbound
    /\ convexity2 = Unbound
    /\ shown = 0

\* lines 340-345: the initial filter pass and the first COV
FindEars ==
    /\ pc = "find_ears"
    /\ \E res \in FilterResults :
          /\ ear_number' = res[1]
          /\ cov' = res[2]
          /\ log' = Append(log, Info("Area Coefficent of Variance", res[2]))
    /\ filtered' = <<>>
    /\ cov_calls' = cov_calls + 1
    /\ pc' = "clnup"
    /\ UNCHANGED <<raised, args, max_cov, max_iterations, i, ears>>
    /\ UNCHANGED silkVars
    /\ UNCHANGED <<frontVars, smoothVars, krnVars>>

\* lines 348-355, 364-368, 376-377: which clean-up loop, if any, is run
CleanupBranch ==
    /\ pc = "clnup"
    /\ IF cov = None
       THEN /\ log' = Append(log, Info("Cannot calculate Coefficent of Variance on single ear", None))
            /\ pc' = "sort"
            /\ UNCHANGED <<max_cov, max_iterations, i>>
       ELSE IF DefaultCleanupTriggered(cov)
       THEN /\ log' = Append(log, Warn("COV above 0.35 has triggered default ear clean-up module", None))
            /\ max_cov' = 350
            /\ max_iterations' = 10
            /\ i' = 1
            /\ pc' = "clnup_default"
       ELSE IF args.ear_cleanup # Absent
       THEN /\ log' = Append(log, Info("Ear clean-up module with custom settings", None))
            /\ max_cov' = args.ear_cleanup[1]
            /\ max_iterations' = args.ear_cleanup[2]
            /\ i' = 1
            /\ pc' = "clnup_custom"
       ELSE /\ log' = Append(log, Info("Area COV under threshold. Ear clean-up module turned off.", None))
            /\ pc' = "sort"
            /\ UNCHANGED <<max_cov, max_iterations, i>>
    /\ UNCHANGED <<raised, args, filtered, ear_number, cov, cov_calls, ears>>
    /\ UNCHANGED silkVars
    /\ UNCHANGED <<frontVars, smoothVars, krnVars>>

\* one evaluation of the while test of a clean-up loop and, when it holds,
\* one pass of the body (lines 356-362 and 369-375)
CleanupLoop(at) ==
    /\ pc = at
    /\ IF cov = None
       THEN \* `None > max_cov` raises TypeError
            /\ raised' = Raise("TypeError", IF at = "clnup_default" THEN 356 ELSE 369)
            /\ pc' = "raised"
            /\ UNCHANGED <<log, filtered, ear_number, cov, cov_calls, i>>
       ELSE IF CleanupContinues(cov, max_cov, i, max_iterations)
       THEN /\ \E res \in FilterResults :
                  /\ ear_number' = res[1]
                  /\ cov' = res[2]
            /\ filtered' = MorphOpen(filtered, CleanupKernelSize(i),
                                      CleanupKernelIterations(i))
            /\ cov_calls' = cov_calls + 1
            /\ i' = i + 1
            /\ UNCHANGED <<pc, raised, log>>
       ELSE /\ log' = Append(log, Info("Ear clean-up module finished", cov))
            /\ pc' = "sort"
            /\ UNCHANGED <<raised, filtered, ear_number, cov, cov_calls, i>>
    /\ UNCHANGED <<args, max_cov, max_iterations, ears>>
    /\ UNCHANGED silkVars
    /\ UNCHANGED <<frontVars, smoothVars, krnVars>>

DefaultCleanupLoop == CleanupLoop("clnup_default")

CustomCleanupLoop == CleanupLoop("clnup_custom")

\* lines 379-436: cut the ears out of the image and sort them left to right
SortEars ==
    /\ pc = "sort"
    /\ ears' = MaskedBy(filtered)
    /\ IF ear_number = 0
       THEN \* zip(*sorted(zip(cnts, boundingBoxes))) of no contour cannot be
            \* unpacked into two names
            /\ raised' = Raise("ValueError", 388)
            /\ pc' = "raised"
            /\ UNCHANGED number_of_ears
       ELSE /\ number_of_ears' = ear_number
            /\ pc' = "proof"
            /\ UNCHANGED raised
    /\ UNCHANGED <<args, i, n, final_ear_masks, convexity, b_chnnl, conv_var,
                   i_var, delta_conv, convexity2, shown>>
    /\ UNCHANGED clnupVars
    /\ UNCHANGED <<frontVars, smoothVars, krnVars>>

\* ---- main(): the proof of the found ears ----------------------------------

\* `args.no_proof is False`, the left operand of the tests of lines 456, 680
ProofWanted(no_proof) == no_proof = FALSE

\* `args.no_proof is False or arg.debug is True`: the right operand is only
\* evaluated when the left one is false, and it reads the name `arg`, which
\* is bound nowhere in main.py
ShowProofTest(no_proof, line) ==
    IF ProofWanted(no_proof) THEN Absent ELSE Raise("NameError", line)

\* lines 441-480: build the proof, display it unless told not to, save it,
\* and start the silk module
ShowProof ==
    /\ pc = "proof"
    /\ IF ShowProofTest(args.no_proof, 456) = Absent
       THEN /\ shown' = shown + 1
            /\ final_ear_masks' = <<>>
            /\ n' = 1
            /\ pc' = "silk"
            /\ UNCHANGED raised
       ELSE /\ raised' = ShowProofTest(args.no_proof, 456)
            /\ pc' = "raised"
            /\ UNCHANGED <<shown, final_ear_masks, n>>
    /\ UNCHANGED <<args, i, ears, number_of_ears, convexity, b_chnnl, conv_var,
                   i_var, delta_conv, convexity2>>
    /\ UNCHANGED clnupVars
    /\ UNCHANGED <<frontVars, smoothVars, krnVars>>

\* ---- main(): clean silks module -------------------------------------------

\* lines 481-514: the next ear, its baseline convexity and its thresholds
SilkStart ==
    /\ pc = "silk"
    /\ n <= number_of_ears
    /\ b_chnnl' = <<>>
    /\ \E cvx \in ConvexityValues :
          /\ convexity' = cvx
          /\ IF DefaultSilkTriggered(cvx)
             THEN i' = 1 /\ conv_var' = 40 /\ i_var' = 10
             ELSE IF args.silk_cleanup # Absent
             THEN /\ conv_var' = args.silk_cleanup[1]
                  /\ i_var' = args.silk_cleanup[2]
                  /\ UNCHANGED i
             ELSE UNCHANGED <<i, conv_var, i_var>>
          /\ IF SilkLoopEntered(cvx, args.silk_cleanup)
             THEN delta_conv' = 1 /\ pc' = "silk_loop"
             ELSE UNCHANGED delta_conv /\ pc' = "silk_end"
    /\ UNCHANGED <<raised, args, ears, number_of_ears, n, final_ear_masks,
                   convexity2, shown>>
    /\ UNCHANGED clnupVars
    /\ UNCHANGED <<frontVars, smoothVars, krnVars>>

\* lines 516-521: one evaluation of the while test and, when it holds, one
\* opening of the ear's b channel
SilkLoop ==
    /\ pc = "silk_loop"
    /\ IF ~SilkDeltaSmall(delta_conv, conv_var)
       THEN /\ pc' = "silk_end"
            /\ UNCHANGED <<raised, i, b_chnnl, delta_conv, convexity2>>
       ELSE IF i = Unbound
       THEN \* `i <= i_var` reads a local that was never assigned
            /\ raised' = Raise("UnboundLocalError", 516)
            /\ pc' = "raised"
            /\ UNCHANGED <<i, b_chnnl, delta_conv, convexity2>>
       ELSE IF SilkBudgetLeft(i, i_var)
       THEN /\ b_chnnl' = MorphOpen(b_chnnl, SilkKernelSize(i),
                                     SilkKernelIterations(i))
            /\ \E cvx2 \in ConvexityValues :
                  /\ convexity2' = cvx2
                  /\ delta_conv' = DeltaConv(cvx2, convexity)
            /\ i' = i + 1
            /\ UNCHANGED <<pc, raised>>
       ELSE /\ pc' = "silk_end"
            /\ UNCHANGED <<raised, i, b_chnnl, delta_conv, convexity2>>
    /\ UNCHANGED <<args, ears, number_of_ears, n, final_ear_masks,
                   convexity, conv_var, i_var, shown>>
    /\ UNCHANGED clnupVars
    /\ UNCHANGED <<frontVars, smoothVars, krnVars>>

\* lines 523-557: the cleaned ear is kept and the next ear is taken
SilkEnd ==
    /\ pc = "silk_end"
    /\ final_ear_masks' = Append(final_ear_masks,
                                 [convexity |-> convexity, b_chnnl |-> b_chnnl])
    /\ n' = n + 1
    /\ pc' = "silk"
    /\ UNCHANGED <<raised, args, i, ears, number_of_ears, convexity, b_chnnl,
                   conv_var, i_var, delta_conv, convexity2, shown>>
    /\ UNCHANGED clnupVars
    /\ UNCHANGED <<frontVars, smoothVars, krnVars>>

\* lines 562-563: every ear has been cleaned, the feature loop starts
SilkDone ==
    /\ pc = "silk"
    /\ n > number_of_ears
    /\ n' = 1
    /\ pc' = "features"
    /\ UNCHANGED <<raised, args, i, ears, number_of_ears, final_ear_masks,
                   convexity, b_chnnl, conv_var, i_var, delta_conv, convexity2,
                   shown>>
    /\ UNCHANGED clnupVars
    /\ UNCHANGED <<frontVars, smoothVars, krnVars>>

\* ---- main(): features of every ear ----------------------------------------

\* lines 564-713: the features, the segmentation and the proof of the next
\* ear.  The KRN module of the loop (lines 653-656) is empty: krn.krn is not
\* called, and krn is not imported (lines 42-49).
Features ==
    /\ pc = "features"
    /\ n <= number_of_ears
    /\ IF ShowProofTest(args.no_proof, 680) = Absent
       THEN /\ shown' = shown + 1
            /\ n' = n + 1
            /\ UNCHANGED <<pc, raised>>
       ELSE /\ raised' = ShowProofTest(args.no_proof, 680)
            /\ pc' = "raised"
            /\ UNCHANGED <<shown, n>>
    /\ UNCHANGED <<args, i, ears, number_of_ears, final_ear_masks, convexity,
                   b_chnnl, conv_var, i_var, delta_conv, convexity2>>
    /\ UNCHANGED clnupVars
    /\ UNCHANGED <<frontVars, smoothVars, krnVars>>

\* line 714: the features of every ear were collected, main() returns
FeaturesDone ==
    /\ pc = "features"
    /\ n > number_of_ears
    /\ pc' = "done"
    /\ UNCHANGED <<raised, args, i, ears>>
    /\ UNCHANGED silkVars
    /\ UNCHANGED clnupVars
    /\ UNCHANGED <<frontVars, smoothVars, krnVars>>

Next ==
    \/ FindEars
    \/ CleanupBranch
    \/ DefaultCleanupLoop
    \/ CustomCleanupLoop
    \/ SortEars
    \/ ShowProof
    \/ SilkStart
    \/ SilkLoop
    \/ SilkEnd
    \/ SilkDone
    \/ Features
    \/ FeaturesDone

Spec == Init /\ [][Next]_vars

\* ---- the ear clean-up loop: properties ------------------------------------

CleanupLoopPcs == {"clnup_default", "clnup_custom"}

\* a clean-up loop was entered
CleanupRan == max_cov # Unbound

\* opening passes performed so far
Passes == Len(filtered)

\* main() ended inside a clean-up loop
RaisedInCleanup == pc = "raised" /\ raised[2] \in {356, 369}

\* a clean-up loop was left through its while test
CleanupFinished == CleanupRan /\ pc \notin CleanupLoopPcs /\ ~RaisedInCleanup

\* the loop was left with the budget spent and the COV still too high
CleanupExhausted == CleanupFinished /\ cov > max_cov

\* the loop was left because the COV came down
CleanupConverged == CleanupFinished /\ cov <= max_cov

\* the COV logged before the clean-up module (line 345)
InitialCov == log[1].cov

\* the threshold the module is meant to work with: the caller's, else 0.35
MaxCovSetting ==
    IF args.ear_cleanup # Absent THEN args.ear_cleanup[1] ELSE 350

LastLog == log[Len(log)]

\* C1: the clean-up loop makes at most maxIterations+1 COV evaluations and
\* ends Converged or Exhausted, never with an exception, whatever COV values
\* (an undefined one included) the re-filtered mask produces.
C1_CleanupTerminates ==
    /\ CleanupRan => cov_calls <= max_iterations + 1
    /\ ~RaisedInCleanup

\* C2: when a clean-up loop is left, the COV is <= max_cov or exactly
\* max_iterations passes were made; never more than max_iterations passes;
\* with the default 0.35 / 10 and an initial COV above 0.35 at least one pass.
C2_StopCondition ==
    /\ CleanupRan => Passes <= max_iterations
    /\ CleanupFinished =>
          (cov # None /\ cov <= max_cov) \/ Passes = max_iterations
    /\ (CleanupFinished /\ max_cov = 350 /\ max_iterations = 10
          /\ InitialCov > 350) => Passes >= 1

C2_Witness ==
    /\ pc = "sort"
    /\ CleanupExhausted
    /\ max_iterations = 10
    /\ Passes = 10

\* C3: no opening is applied and nothing is raised when the initial COV is
\* undefined or not above maxCOV (the caller's maxCOV when one is supplied).
C3_NoMorphology ==
    (log # <<>> /\ (InitialCov = None \/ InitialCov <= MaxCovSetting)) =>
        (Passes = 0 /\ ~RaisedInCleanup)

\* C4: a clean-up loop runs with the caller's maxCOV and maxIterations when
\* -clnup is given, and with 0.35 and 10 only when it is not.
C4_CallerSettingsUsed ==
    pc \in CleanupLoopPcs =>
        IF args.ear_cleanup # Absent
        THEN max_cov = args.ear_cleanup[1] /\ max_iterations = args.ear_cleanup[2]
        ELSE max_cov = 350 /\ max_iterations = 10

\* C23: the k-th pass of a clean-up loop opens the mask of the previous pass
\* with a square structuring element of size k, then re-filters and
\* recomputes the COV: the size is the iteration index and grows by one.
C23_CleanupKernelIsIndex ==
    /\ [](\A k \in 1..Len(filtered) : filtered[k].size = k)
    /\ [][filtered' # filtered =>
             /\ pc \in CleanupLoopPcs
             /\ filtered' = Append(filtered, [size |-> i, iterations |-> i])
             /\ i = Len(filtered) + 1
             /\ cov_calls' = cov_calls + 1]_vars

C23_Witness ==
    /\ pc \in CleanupLoopPcs
    /\ Len(filtered) = 3
    /\ filtered[3].size = 3

\* C5: a loop that spent its budget without reaching COV <= maxCOV raises
\* nothing, hands the mask of its last pass to the rest of main(), and
\* reports a status that differs from the report of a converged loop.
C5_StatusDistinguishes ==
    /\ CleanupExhausted =>
          /\ Passes = max_iterations
          /\ pc # "sort" => (pc # "raised" /\ ears = filtered)
    /\ CleanupConverged =>
          (LastLog.level = "INFO" /\ LastLog.msg = "Ear clean-up module finished")
    /\ CleanupExhausted =>
          ~(LastLog.level = "INFO" /\ LastLog.msg = "Ear clean-up module finished")

\* ---- the silk clean-up loop: properties -----------------------------------

\* C6: an ear whose baseline convexity is >= 0.87 gets no opening when -slk
\* is not given; when -slk is given the loop is entered whatever the baseline.
C6_SkipUnlessOverridden ==
    /\ [](\A k \in 1..Len(final_ear_masks) :
            (final_ear_masks[k].convexity >= 870 /\ args.silk_cleanup = Absent)
                => final_ear_masks[k].b_chnnl = <<>>)
    /\ [][(pc = "silk" /\ pc' \in {"silk_loop", "silk_end"}) =>
            /\ (convexity' >= 870 /\ args.silk_cleanup = Absent) =>
                  (pc' = "silk_end" /\ b_chnnl' = <<>>)
            /\ args.silk_cleanup # Absent =>
                  (pc' = "silk_loop" /\ delta_conv' = 1)]_vars

C6_Witness ==
    /\ pc = "silk_loop"
    /\ convexity >= 870
    /\ args.silk_cleanup # Absent
    /\ b_chnnl = <<>>

\* C7: the silk loop runs with the caller's minDeltaConvexity and
\* maxIterations when -slk is given, and with 0.04 and 10 only when it is not.
C7_CallerSilkSettingsUsed ==
    pc = "silk_loop" =>
        IF args.silk_cleanup # Absent
        THEN conv_var = args.silk_cleanup[1] /\ i_var = args.silk_cleanup[2]
        ELSE conv_var = 40 /\ i_var = 10

\* C8: each ear's silk loop counts from 1: the counter is bound whenever the
\* loop is entered and is one more than the openings applied to this ear,
\* whatever the clean-up loop or earlier ears did.
C8_FreshCounter ==
    /\ pc = "silk_loop" => (i # Unbound /\ i = Len(b_chnnl) + 1)
    /\ ~(pc = "raised" /\ raised[1] = "UnboundLocalError")

\* C19: an ear whose silk loop is entered (baseline < 0.87, or -slk given)
\* gets at least one opening of its b channel.
C19_AtLeastOneOpening ==
    /\ \A k \in 1..Len(final_ear_masks) :
          SilkLoopEntered(final_ear_masks[k].convexity, args.silk_cleanup)
              => final_ear_masks[k].b_chnnl # <<>>
    /\ ~(pc = "raised" /\ raised[2] = 516)

\* the convexity one iteration earlier: the baseline before the first opening
ConvexityPrev == IF b_chnnl = <<>> THEN convexity ELSE convexity2

\* C20: the delta tested after an opening is the new convexity minus the
\* convexity of the previous iteration (the baseline on the first one), and
\* an opening is made only while delta < minDelta and iteration <= max.
C20_DeltaOverPrevious ==
    [][(pc = "silk_loop" /\ b_chnnl' # b_chnnl) =>
          /\ delta_conv' = convexity2' - ConvexityPrev
          /\ delta_conv < conv_var
          /\ i <= i_var]_vars

\* the openings of a mask have the sizes first, first+1, first+2, ...
GrowsByOne(mask) ==
    \A k \in 1..(Len(mask) - 1) : mask[k + 1].size = mask[k].size + 1

\* C21: within one ear's silk loop every opening has size 2 + counter and
\* 1 + counter kernel iterations, for a counter that goes up by one per
\* opening: sizes and iterations are strictly increasing and no kernel is
\* applied that is not larger than every kernel applied before.
C21_SilkKernelGrows ==
    /\ [](/\ GrowsByOne(b_chnnl)
          /\ \A k \in 1..Len(b_chnnl) :
                b_chnnl[k].iterations = b_chnnl[k].size - 1
          /\ \A j, k \in 1..Len(b_chnnl) :
                j < k => /\ b_chnnl[j].size < b_chnnl[k].size
                         /\ b_chnnl[j].iterations < b_chnnl[k].iterations)
    /\ [][(pc = "silk_loop" /\ b_chnnl' # b_chnnl) =>
             /\ b_chnnl' = Append(b_chnnl, [size |-> 2 + i, iterations |-> 1 + i])
             /\ i' = i + 1]_vars

C21_Witness ==
    /\ pc = "silk_loop"
    /\ Len(b_chnnl) >= 3
    /\ b_chnnl[1].size = 3 /\ b_chnnl[3].size = 5

\* C22: the silk loop of every ear ends without an error after at most
\* maxIterations openings, and when it ends the convexity gain is >=
\* minDeltaConvexity or the counter is above maxIterations.
C22_SilkTerminates ==
    /\ (pc \in {"silk_loop", "silk_end"}
            /\ SilkLoopEntered(convexity, args.silk_cleanup)) =>
          Len(b_chnnl) <= i_var
    /\ (pc = "silk_end" /\ SilkLoopEntered(convexity, args.silk_cleanup)) =>
          (delta_conv >= conv_var \/ i > i_var)
    /\ ~(pc = "raised" /\ raised[1] = "UnboundLocalError")

\* ---- main(): the pipeline as a whole: properties ---------------------------

\* the lines of the two per-ear loops of main()
PerEarLines == 481..714

\* C12: a failure while one ear is processed does not end main(): the ear is
\* skipped and the remaining ears are processed.
C12_BadEarSkipped ==
    ~(pc = "raised" /\ raised[2] \in PerEarLines)

\* C13: when the filter leaves no region, nothing is raised, 0 ears are
\* reported and the per-ear stages run zero times.
C13_ZeroRegionsValid ==
    /\ ear_number = 0 => pc # "raised"
    /\ (ear_number = 0 /\ pc = "done") =>
          (number_of_ears = 0 /\ final_ear_masks = <<>>)

\* C14: the kernel-row analysis krn() has run on every ear whose pass through
\* the feature loop is over, after that ear's silk loop ended.
C14_KernelRowsAfterSilk ==
    ((pc = "features" /\ n > 1) \/ (pc = "done" /\ number_of_ears >= 1))
        => (kpc = "returned" /\ Len(final_ear_masks) = number_of_ears)

\* C15: with -np nothing is displayed and nothing is raised at the tests that
\* decide the display of a proof.
C15_NoProofOnlyHides ==
    /\ args.no_proof => shown = 0
    /\ ~(pc = "raised" /\ raised[1] = "NameError")

\* C18: when a clean-up pass leaves fewer than 2 regions, so that the COV is
\* undefined, the loop stops without raising and main() goes on with that
\* mask.
C18_UndefinedCovStops ==
    (CleanupRan /\ Passes >= 1 /\ cov = None) =>
        /\ ~RaisedInCleanup
        /\ pc \in {"proof", "silk", "silk_loop", "silk_end", "features", "done"}
              => ears = filtered

\* ---- main(): colour correction and pixels per metric ----------------------

\* a path is the sequence of its characters

\* `default="None"` of -clr: the value of args.color_checker without -clr
ColorCheckerDefault == <<"N", "o", "n", "e">>

\* the values of args.color_checker: -clr absent, `-clr r.png`, `-clr /d/r.png`
ColorCheckerArgs ==
    { ColorCheckerDefault,
      <<"r", ".", "p", "n", "g">>,
      <<"/", "d", "/", "r", ".", "p", "n", "g">> }

\* the values of args.pixelspermetric: -ppm absent, `-ppm 25`
PixelsPerMetricArgs == {Absent, <<25>>}

\* `args.color_checker is not None`
ColorModuleOn(color_checker) == color_checker # Absent

\* `args.color_checker[0]`: the first element of a string is its first
\* character
ReffArg(color_checker) == <<color_checker[1]>>

\* utility.img_parse: the full path of the file the given path names
ImgParse(path) == path

\* what open() in imghdr.what can find at a path
FileKinds == {"missing", "directory", "other", "image"}

\* the root directory is always there; any other one-character path can name
\* anything or nothing
KindsOf(path) == IF path = <<"/">> THEN {"directory"} ELSE FileKinds

\* what ppm.ppm_square can return as pixels per metric
PpmResults == {None, 40}

\* the state before the colour correction module (lines 148-228)
InitFront ==
    /\ SmoothIdle
    /\ KrnIdle
    /\ MainLocalsUnbound
    /\ FrontIdle
    /\ pc = "color"
    /\ raised = Absent
    /\ args \in [color_checker : ColorCheckerArgs,
                 pixelspermetric : PixelsPerMetricArgs,
                 no_save : BOOLEAN, debug : BOOLEAN]

\* lines 229-230 and 266-270: is the module on, and on which reference image
ColorTest ==
    /\ pc = "color"
    /\ IF ColorModuleOn(args.color_checker)
       THEN /\ reff_fullpath' = ImgParse(ReffArg(args.color_checker))
            /\ pc' = "color_read"
            /\ UNCHANGED color_proof
       ELSE /\ color_proof' = "Color correction module off"
            /\ pc' = "ppm"
            /\ UNCHANGED reff_fullpath
    /\ UNCHANGED <<tar_chk, color_csv, PixelsPerMetric, ppm_source, ppm_csv>>
    /\ UNCHANGED <<raised, args, shown>>
    /\ UNCHANGED clnupVars
    /\ UNCHANGED <<i, ears, number_of_ears, n, final_ear_masks, convexity,
                   b_chnnl, conv_var, i_var, delta_conv, convexity2>>
    /\ UNCHANGED <<smoothVars, krnVars>>

\* lines 232-237: the reference image is looked at and read
ColorRead ==
    /\ pc = "color_read"
    /\ \E kind \in KindsOf(reff_fullpath) :
          CASE kind = "missing" ->
                  raised' = Raise("FileNotFoundError", 232) /\ pc' = "raised"
            [] kind = "directory" ->
                  raised' = Raise("IsADirectoryError", 232) /\ pc' = "raised"
            [] kind = "other" ->
                  raised' = Raise("Exception", 234) /\ pc' = "raised"
            [] kind = "image" ->
                  pc' = "color_correct" /\ UNCHANGED raised
    /\ UNCHANGED frontVars
    /\ UNCHANGED <<args, shown>>
    /\ UNCHANGED clnupVars
    /\ UNCHANGED <<i, ears, number_of_ears, n, final_ear_masks, convexity,
                   b_chnnl, conv_var, i_var, delta_conv, convexity2>>
    /\ UNCHANGED <<smoothVars, krnVars>>

\* lines 239-264: the correction, its CSV row and its debug window
ColorCorrect ==
    /\ pc = "color_correct"
    /\ tar_chk' = 1
    /\ color_proof' = "color_correct"
    /\ color_csv' = color_csv + 1
    /\ shown' = IF args.debug THEN shown + 1 ELSE shown
    /\ pc' = "ppm"
    /\ UNCHANGED <<reff_fullpath, PixelsPerMetric, ppm_source, ppm_csv>>
    /\ UNCHANGED <<raised, args>>
    /\ UNCHANGED clnupVars
    /\ UNCHANGED <<i, ears, number_of_ears, n, final_ear_masks, convexity,
                   b_chnnl, conv_var, i_var, delta_conv, convexity2>>
    /\ UNCHANGED <<smoothVars, krnVars>>

\* lines 276-313: pixels per metric, from the colour checker when the colour
\* correction module is on
PixelsPerMetricModule ==
    /\ pc = "ppm"
    /\ IF args.pixelspermetric # Absent
       THEN /\ ppm_source' = IF ColorModuleOn(args.color_checker)
                             THEN "tar_chk" ELSE "img"
            /\ \E found \in PpmResults :
                  /\ PixelsPerMetric' = found
                  /\ shown' = IF found # None /\ args.debug
                              THEN shown + 1 ELSE shown
                  /\ ppm_csv' = IF found # None /\ ~args.no_save
                                THEN ppm_csv + 1 ELSE ppm_csv
       ELSE /\ ppm_source' = "PPM module off"
            /\ PixelsPerMetric' = None
            /\ UNCHANGED <<shown, ppm_csv>>
    /\ pc' = "find_ears"
    /\ UNCHANGED <<reff_fullpath, tar_chk, color_proof, color_csv>>
    /\ UNCHANGED <<raised, args>>
    /\ UNCHANGED clnupVars
    /\ UNCHANGED <<i, ears, number_of_ears, n, final_ear_masks, convexity,
                   b_chnnl, conv_var, i_var, delta_conv, convexity2>>
    /\ UNCHANGED <<smoothVars, krnVars>>

NextFront ==
    \/ ColorTest
    \/ ColorRead
    \/ ColorCorrect
    \/ PixelsPerMetricModule

SpecFront == InitFront /\ [][NextFront]_vars

\* C16: without -clr the colour correction module is off: color_correct is
\* not run, no row goes to color_correction.csv, nothing is raised and the
\* proof carries 'Color correction module off'; the module runs only when a
\* colour checker path was given.
C16_OffWithoutChecker ==
    args.color_checker = ColorCheckerDefault =>
        /\ pc \notin {"color_read", "color_correct", "raised"}
        /\ tar_chk = Unbound /\ color_csv = 0
        /\ pc \in {"ppm", "find_ears"} =>
              color_proof = "Color correction module off"

\* ---- krn(): the fine smoothing loop of one band ---------------------------

MaxSignal == 23         \* most columns of a band's signal

\* argrelextrema(x, np.less) on n samples: strict local minima are interior
\* and never adjacent, so there are at most (n-1) \div 2 of them
MaxMinima(len) == IF len < 3 THEN 0 ELSE (len - 1) \div 2

\* savgol_filter(x, window_len, 4) in its default mode 'interp' raises
\* ValueError unless window_len <= len(x)
WindowFits(window_len, len) == window_len <= len

\* `while len(c) > 9:`
TooManyValleys(len_c) == len_c > 9

\* lines 146-150: the band's signal, its raw valleys, the first window
InitSmooth ==
    /\ MainIdle
    /\ KrnIdle
    /\ spc = "smooth"
    /\ x_len \in 1..MaxSignal
    /\ c_len \in 0..MaxMinima(x_len)
    /\ u = 19

\* lines 151-162: one evaluation of the while test and, when it holds, one
\* smoothing with the window u, whose valleys replace c
SmoothLoop ==
    /\ spc = "smooth"
    /\ IF ~TooManyValleys(c_len)
       THEN /\ spc' = "stats"
            /\ UNCHANGED <<x_len, c_len, u>>
       ELSE IF ~WindowFits(u, x_len)
       THEN /\ spc' = "raised"
            /\ UNCHANGED <<x_len, c_len, u>>
       ELSE /\ c_len' \in 0..MaxMinima(x_len)
            /\ u' = 2 + u
            /\ UNCHANGED <<spc, x_len>>
    /\ UNCHANGED <<mainVars, frontVars, krnVars>>

NextSmooth == SmoothLoop

SpecSmooth == InitSmooth /\ [][NextSmooth]_vars

MaxCol == 6             \* largest column index of a valley
MaxBandValleys == 2     \* most valleys kept for one band

NaN == -3               \* numpy's nan (the median of an empty array)

\* `a = utility.ranges(wid3.shape[1], 6)`
Sections == 6

\* `a = a[1:len(a)-1]`: the slice starts that are kept
SliceStarts == Sections - 2

\* `for i in range(len(b)-1):` the bands that are processed
Bands == SliceStarts - 1

\* what argrelextrema (after the fine smoothing loop) can give for a band:
\* ascending column indices, no two adjacent
BandValleyLists ==
    { c \in UNION { [1..k -> 1..MaxCol] : k \in 0..MaxBandValleys } :
        \A j \in 1..(Len(c) - 1) : c[j + 1] >= c[j] + 2 }

\* np.sort
Sorted(s) == SortSeq(s, LAMBDA a, b : a < b)

\* np.diff, nan where an operand is nan
Diff(s) ==
    [k \in 1..(Len(s) - 1) |->
        IF s[k] = NaN \/ s[k + 1] = NaN THEN NaN ELSE s[k + 1] - s[k]]

\* np.median, doubled so that it stays an integer; nan for an empty array
\* and for an array that holds a nan
Median2(s) ==
    IF s = <<>> \/ (\E k \in 1..Len(s) : s[k] = NaN) THEN NaN
    ELSE LET t == Sorted(s)
             m == Len(t)
         IN  IF m % 2 = 1 THEN 2 * t[(m + 1) \div 2]
             ELSE t[m \div 2] + t[m \div 2 + 1]

\* np.max, nan for an array that holds a nan (not defined on an empty one)
MaxOf(s) ==
    IF \E k \in 1..Len(s) : s[k] = NaN THEN NaN
    ELSE CHOOSE m \in {s[k] : k \in 1..Len(s)} :
            \A k \in 1..Len(s) : s[k] <= m

\* `abs(all_peaks[i]-prev_ele) <= all_peaks_diff_med`, med2 the doubled
\* median; false when the median is nan
CloseStrict(x, prev_ele, med2) ==
    med2 # NaN /\ 2 * (IF x >= prev_ele THEN x - prev_ele ELSE prev_ele - x) < med2

Close(x, prev_ele, med2) ==
    med2 # NaN /\ 2 * (IF x >= prev_ele THEN x - prev_ele ELSE prev_ele - x) <= med2

\* lines 192-199: the walk over the sorted pooled indices from position k
RECURSIVE ClusterFrom(_, _, _, _, _, _)
ClusterFrom(a, k, prev_ele, cur_list, acc, med2) ==
    IF k > Len(a) THEN Append(acc, cur_list)
    ELSE IF Close(a[k], prev_ele, med2)
         THEN ClusterFrom(a, k + 1, a[k], Append(cur_list, a[k]), acc, med2)
         ELSE ClusterFrom(a, k + 1, a[k], <<a[k]>>, Append(acc, cur_list), med2)

\* lines 200-202: every cluster collapses to its median (doubled)
ClusterMedians(cl) == [k \in 1..Len(cl) |-> Median2(cl[k])]

\* `threshold = threshold - 0.1` is computed in binary floating point: the
\* thresholds are 0.9, 0.8, 0.7000000000000001, 0.6000000000000001,
\* 0.5000000000000001, 0.40000000000000013, 0.30000000000000016.  From the
\* third pass on the threshold, and its product with a largest gap below 25,
\* is above the tenth's by a few 1e-16: a gap equal to tenth * largest gap
\* then compares as smaller.  In twentieths, where both sides of the
\* comparison are integers, that is one more on the right.
Drift(tenths) == IF tenths < 8 THEN 1 ELSE 0

\* `all_peaks_final[i]-prev_ele < threshold*all_peaks_final_diff_max`, with
\* the threshold in tenths; false when an operand is nan
TooCloseUnscaled(x, prev_ele, tenths, diff_max) ==
    /\ x # NaN /\ prev_ele # NaN /\ diff_max # NaN
    /\ 10 * (x - prev_ele) < 10 * diff_max

TooClose(x, prev_ele, tenths, diff_max) ==
    /\ x # NaN /\ prev_ele # NaN /\ diff_max # NaN
    /\ 10 * (x - prev_ele) < tenths * diff_max + Drift(tenths)

\* list.remove(x): the list without the first element equal to x
Remove(f, x) ==
    LET j == CHOOSE j \in 1..Len(f) :
                 f[j] = x /\ \A h \in 1..(j - 1) : f[h] # x
    IN  [k \in 1..(Len(f) - 1) |-> IF k < j THEN f[k] ELSE f[k + 1]]

\* lines 219-224: the inner loop of one pruning pass from position k
RECURSIVE PruneFrom(_, _, _, _, _)
PruneFrom(f, k, prev_ele, tenths, diff_max) ==
    IF k > Len(f) THEN f
    ELSE IF TooClose(f[k], prev_ele, tenths, diff_max)
         THEN PruneFrom(Remove(f, f[k]), k, prev_ele, tenths, diff_max)
         ELSE PruneFrom(f, k + 1, f[k], tenths, diff_max)

\* `all_peaks_final = all_peaks_final_temp.copy()`: what a pass starts from
PassInputPrevious(final, temp) == final

PassInput(final, temp) == temp

\* lines 214-224: one pruning pass over a consensus set
PruneOnce(peaks, tenths) ==
    PruneFrom(peaks, 2, peaks[1], tenths, MaxOf(Diff(peaks)))

\* `threshold = threshold - 0.1`, in tenths
NextThresholdUp(tenths) == tenths + 1

NextThreshold(tenths) == tenths - 1

\* `diff_pre_consensus = np.median(dis_kernel)`
PreConsensusPooled(band_medians, pooled_median) == pooled_median

PreConsensus(band_medians, pooled_median) == Median2(band_medians)

\* `while num_peaks_iter < 6:`
PruneAgainFew(peaks) == peaks >= 6

PruneAgain(peaks) == peaks < 6

\* `if num_exec > 6: break`
PruneBudgetSpent(execs) == execs > 6

\* lines 106-109: krn() is about to process its bands
InitKrn ==
    /\ MainIdle
    /\ SmoothIdle
    /\ kpc = "bands"
    /\ kraised = Absent
    /\ band = 0
    /\ dis_kernel = <<>>
    /\ all_peaks = <<>>
    /\ all_peaks_diff_med = Unbound
    /\ clustered_list = <<>>
    /\ all_peaks_final = <<>>
    /\ all_peaks_final_temp = <<>>
    /\ num_peaks_iter = Unbound
    /\ threshold = Unbound
    /\ num_exec = Unbound
    /\ returned = Absent

\* lines 111-168: one band; c is what its fine smoothing loop ended with
KrnBand ==
    /\ kpc = "bands"
    /\ band < Bands
    /\ \E c \in BandValleyLists :
          /\ dis_kernel' = Append(dis_kernel, Median2(Diff(c)))
          /\ all_peaks' = all_peaks \o c
    /\ band' = band + 1
    /\ UNCHANGED <<kpc, kraised, all_peaks_diff_med, clustered_list,
                   all_peaks_final, all_peaks_final_temp, num_peaks_iter,
                   threshold, num_exec, returned>>
    /\ UNCHANGED <<mainVars, frontVars, smoothVars>>

\* lines 174-212: sort the pooled valleys, cluster them, take the medians
KrnCluster ==
    /\ kpc = "bands"
    /\ band = Bands
    /\ all_peaks' = Sorted(all_peaks)
    /\ all_peaks_diff_med' = Median2(Diff(all_peaks'))
    /\ IF all_peaks = <<>>
       THEN \* `prev_ele = all_peaks[0]` on an empty array
            /\ kraised' = Raise("IndexError", 190)
            /\ kpc' = "raised"
            /\ UNCHANGED <<clustered_list, all_peaks_final, all_peaks_final_temp,
                           num_peaks_iter, threshold, num_exec>>
       ELSE /\ clustered_list' = ClusterFrom(all_peaks', 1, all_peaks'[1], <<>>,
                                             <<>>, all_peaks_diff_med')
            /\ all_peaks_final' = ClusterMedians(clustered_list')
            /\ all_peaks_final_temp' = all_peaks_final'
            /\ num_peaks_iter' = 0
            /\ threshold' = 9
            /\ num_exec' = 0
            /\ kpc' = "prune"
            /\ UNCHANGED kraised
    /\ UNCHANGED <<band, dis_kernel, returned>>
    /\ UNCHANGED <<mainVars, frontVars, smoothVars>>

\* lines 213-230: one outer pass of the adaptive pruning
KrnPrune ==
    /\ kpc = "prune"
    /\ IF Len(PassInput(all_peaks_final, all_peaks_final_temp)) < 2
       THEN \* np.max of the empty array of differences
            /\ kraised' = Raise("ValueError", 216)
            /\ kpc' = "raised"
            /\ all_peaks_final' = PassInput(all_peaks_final, all_peaks_final_temp)
            /\ UNCHANGED <<num_peaks_iter, threshold, num_exec>>
       ELSE /\ all_peaks_final' =
                  PruneOnce(PassInput(all_peaks_final, all_peaks_final_temp),
                            threshold)
            /\ num_peaks_iter' = Len(all_peaks_final')
            /\ threshold' = NextThreshold(threshold)
            /\ num_exec' = num_exec + 1
            /\ kpc' = IF PruneBudgetSpent(num_exec') \/ ~PruneAgain(num_peaks_iter')
                      THEN "report" ELSE "prune"
            /\ UNCHANGED kraised
    /\ UNCHANGED <<band, dis_kernel, all_peaks, all_peaks_diff_med,
                   clustered_list, all_peaks_final_temp, returned>>
    /\ UNCHANGED <<mainVars, frontVars, smoothVars>>

\* lines 239-268: draw the peaks on the proof and return the statistics
KrnReturn ==
    /\ kpc = "report"
    /\ IF \E k \in 1..Len(all_peaks_final) : all_peaks_final[k] = NaN
       THEN \* `int(lines[i])` of a nan
            /\ kraised' = Raise("ValueError", 243)
            /\ kpc' = "raised"
            /\ UNCHANGED returned
       ELSE /\ returned' = [diff_pre_consensus |->
                                PreConsensus(dis_kernel, all_peaks_diff_med),
                            diff_post_consensus |-> Median2(Diff(all_peaks_final)),
                            num_peaks |-> Len(all_peaks_final)]
            /\ kpc' = "returned"
            /\ UNCHANGED kraised
    /\ UNCHANGED <<band, dis_kernel, all_peaks, all_peaks_diff_med,
                   clustered_list, all_peaks_final, all_peaks_final_temp,
                   num_peaks_iter, threshold, num_exec>>
    /\ UNCHANGED <<mainVars, frontVars, smoothVars>>

NextKrn ==
    \/ KrnBand
    \/ KrnCluster
    \/ KrnPrune
    \/ KrnReturn

SpecKrn == InitKrn /\ [][NextKrn]_vars

\* C9: krn() never raises and always returns a row-count estimate, whatever
\* valleys the bands pool: none, a single one, or valleys that cluster into a
\* single consensus peak.
C9_NeverRaises ==
    /\ kpc # "raised"
    /\ kpc = "returned" => returned.num_peaks >= 0

\* the outer passes of the pruning loop that were started so far
PrunePasses == num_exec

\* C11: the adaptive pruning makes at most 6 outer passes: pass k runs with
\* the threshold 0.9 - 0.1*(k-1), and no pass is started after the sixth.
C11_AtMostSixPasses ==
    num_exec # Unbound =>
        /\ threshold = 9 - PrunePasses
        /\ PrunePasses <= 6

\* ---- krn(): the clustering into consensus peaks: properties ----------------

\* the clusters laid end to end
RECURSIVE Flatten(_)
Flatten(cl) == IF cl = <<>> THEN <<>> ELSE Head(cl) \o Flatten(Tail(cl))

\* the pooled indices of Scenario C
ScenarioC == <<10, 12, 50, 53, 90>>

\* the clustering of lines 186-199 applied to a sorted sequence
ClustersOf(a) == ClusterFrom(a, 1, a[1], <<>>, <<>>, Median2(Diff(a)))

\* C17: the clusters partition the sorted pooled indices, in order; an index
\* is in the cluster of its predecessor iff their distance is <= the median
\* gap; every cluster is non-empty and collapses to its median; and
\* [10,12,50,53,90] gives the gap 20, the clusters [10,12],[50,53],[90] and
\* the consensus peaks 11, 51.5, 90.
C17_ClusteringRule ==
    /\ clustered_list # <<>> =>
          /\ Flatten(clustered_list) = all_peaks
          /\ \A k \in 1..Len(clustered_list) :
                /\ clustered_list[k] # <<>>
                /\ \A j \in 1..(Len(clustered_list[k]) - 1) :
                      Close(clustered_list[k][j + 1], clustered_list[k][j],
                            all_peaks_diff_med)
          /\ \A k \in 1..(Len(clustered_list) - 1) :
                (clustered_list[k] # <<>> /\ clustered_list[k + 1] # <<>>) =>
                    ~Close(clustered_list[k + 1][1],
                           clustered_list[k][Len(clustered_list[k])],
                           all_peaks_diff_med)
          /\ all_peaks_final_temp = ClusterMedians(clustered_list)
          /\ \A k \in 1..Len(all_peaks_final_temp) : all_peaks_final_temp[k] # NaN
    /\ Median2(Diff(ScenarioC)) = 40
    /\ ClustersOf(ScenarioC) = <<(<<10, 12>>), (<<50, 53>>), (<<90>>)>>
    /\ ClusterMedians(ClustersOf(ScenarioC)) = <<22, 103, 180>>

\* C24: for a pooled sequence with at least two indices the consensus peaks
\* that the clustering produces are numbers, strictly increasing (so without
\* duplicates), and two consecutive ones are never closer than the median
\* gap of the sorted pooled indices.
C24_ConsensusSeparated ==
    (clustered_list # <<>> /\ Len(all_peaks) >= 2) =>
        /\ all_peaks_diff_med # NaN
        /\ Len(all_peaks_final_temp) = Len(clustered_list)
        /\ \A k \in 1..Len(all_peaks_final_temp) : all_peaks_final_temp[k] # NaN
        /\ \A k \in 1..(Len(all_peaks_final_temp) - 1) :
              /\ all_peaks_final_temp[k] < all_peaks_final_temp[k + 1]
              /\ all_peaks_final_temp[k + 1] - all_peaks_final_temp[k]
                    >= all_peaks_diff_med

C24_Witness ==
    /\ kpc = "prune"
    /\ Len(all_peaks_final_temp) >= 3
    /\ all_peaks_diff_med > 0
    /\ \E k \in 1..Len(clustered_list) : Len(clustered_list[k]) >= 2

\* C27: of the 6 sections the first and the last are discarded and the other
\* 4 are processed: when the band loop is over, 4 bands have contributed.
C27_FourBandsContribute ==
    kpc # "bands" => (band = Sections - 2 /\ Len(dis_kernel) = Sections - 2)

MaxPruneCol == 12       \* largest column index of a valley
MaxPeaks == 6           \* most valleys of a band

\* the elements of a set of numbers in ascending order
RECURSIVE Ascending(_)
Ascending(S) ==
    IF S = {} THEN <<>>
    ELSE LET m == CHOOSE m \in S : \A x \in S : m <= x
         IN  <<m>> \o Ascending(S \ {m})

\* what argrelextrema can give for a band: ascending columns, none adjacent
PeakLists ==
    { Ascending(S) : S \in { T \in SUBSET (1..MaxPruneCol) :
                               /\ Cardinality(T) <= MaxPeaks
                               /\ \A x \in T : x + 1 \notin T } }

\* lines 111-168 done: the three bands have found the same valleys p
InitPrune ==
    /\ MainIdle
    /\ SmoothIdle
    /\ kpc = "bands"
    /\ kraised = Absent
    /\ band = Bands
    /\ \E p \in PeakLists :
          /\ dis_kernel = [k \in 1..Bands |-> Median2(Diff(p))]
          /\ all_peaks = p \o p \o p
    /\ all_peaks_diff_med = Unbound
    /\ clustered_list = <<>>
    /\ all_peaks_final = <<>>
    /\ all_peaks_final_temp = <<>>
    /\ num_peaks_iter = Unbound
    /\ threshold = Unbound
    /\ num_exec = Unbound
    /\ returned = Absent

NextPrune ==
    \/ KrnCluster
    \/ KrnPrune
    \/ KrnReturn

SpecPrune == InitPrune /\ [][NextPrune]_vars

\* a pass has completed and left its result in all_peaks_final
PassDone ==
    /\ kpc \in {"prune", "report", "returned"}
    /\ num_exec # Unbound
    /\ num_exec >= 1

\* the threshold, in tenths, of the pass that ran last
LastThreshold == threshold + 1

\* C25 as stated: after a pass the loop exits exactly when fewer than 6 peaks
\* remain or the pass budget is spent.
C25_ExitsBelowSix ==
    [][(kpc = "prune" /\ kpc' \in {"prune", "report"}) =>
          (kpc' = "report" <=>
              (num_peaks_iter' < 6 \/ PruneBudgetSpent(num_exec')))]_vars

\* C25, amended: after a pass the loop exits exactly when at least 6 peaks
\* remain or the pass budget is spent; it goes on while fewer than 6 remain.
C25_ExitsAtSix ==
    [][(kpc = "prune" /\ kpc' \in {"prune", "report"}) =>
          (kpc' = "report" <=>
              (num_peaks_iter' >= 6 \/ PruneBudgetSpent(num_exec')))]_vars

C25_Witness ==
    /\ kpc = "report"
    /\ num_peaks_iter >= 6
    /\ num_exec >= 2
    /\ ~PruneBudgetSpent(num_exec)

\* the members of a sequence
Elems(s) == {s[k] : k \in 1..Len(s)}

\* gap < t * maxGap for the threshold t of a pass, given in tenths
BelowThreshold(gap, tenths, maxGap) ==
    10 * gap < tenths * maxGap + Drift(tenths)

\* the last retained peak before r
RetainedBefore(ret, r) ==
    CHOOSE q \in Elems(ret) : q < r /\ \A h \in Elems(ret) : h < r => h <= q

\* C26: after a pass with threshold t over a consensus set with largest gap
\* maxGap, the retained peaks are a subsequence of the consensus set, in its
\* order, that holds its first peak; every retained peak is at least t*maxGap
\* after the previously retained one; and every removed peak was less than
\* t*maxGap after the retained peak before it.
C26_PassResult ==
    (PassDone /\ \A k \in 1..Len(all_peaks_final_temp) :
                    all_peaks_final_temp[k] # NaN) =>
        LET maxGap == MaxOf(Diff(all_peaks_final_temp))
        IN  /\ all_peaks_final # <<>>
            /\ all_peaks_final[1] = all_peaks_final_temp[1]
            /\ Elems(all_peaks_final) \subseteq Elems(all_peaks_final_temp)
            /\ \A k \in 1..(Len(all_peaks_final) - 1) :
                  /\ all_peaks_final[k] < all_peaks_final[k + 1]
                  /\ ~BelowThreshold(all_peaks_final[k + 1] - all_peaks_final[k],
                                     LastThreshold, maxGap)
            /\ \A r \in Elems(all_peaks_final_temp) \ Elems(all_peaks_final) :
                  BelowThreshold(r - RetainedBefore(all_peaks_final, r),
                                 LastThreshold, maxGap)

C26_Witness ==
    /\ PassDone
    /\ Len(all_peaks_final) >= 3
    /\ Len(all_peaks_final_temp) >= Len(all_peaks_final) + 2
    /\ \E k \in 2..(Len(all_peaks_final_temp) - 1) :
          /\ all_peaks_final_temp[k] \notin Elems(all_peaks_final)
          /\ all_peaks_final_temp[k + 1] \in Elems(all_peaks_final)

\* C29: every pass prunes the full consensus set, which the passes leave as
\* the clustering made it, with that set's largest gap: after any pass, so
\* after the last one too, the peak set is one greedy pruning of the consensus
\* set at that pass's threshold, and that is what krn counts.
C29_RestartsFromConsensus ==
    /\ [](PassDone =>
            /\ all_peaks_final_temp = ClusterMedians(clustered_list)
            /\ all_peaks_final = PruneOnce(all_peaks_final_temp, LastThreshold)
            /\ (kpc = "returned" =>
                   returned.num_peaks =
                       Len(PruneOnce(all_peaks_final_temp, LastThreshold))))
    /\ [][kpc = "prune" => all_peaks_final_temp' = all_peaks_final_temp]_vars

\* a peak that the pass before the last had removed is back
C29_Witness ==
    /\ PassDone
    /\ num_exec >= 2
    /\ \E x \in Elems(all_peaks_final) :
          x \notin Elems(PruneOnce(all_peaks_final_temp, LastThreshold + 1))

\* C30: from one pass to the next the number of retained peaks never goes
\* down, so the count that krn returns, the last pass's, is the largest of
\* all passes; and it is at most the number of clusters.
C30_CountNeverDecreases ==
    /\ [][(PassDone /\ num_exec' = num_exec + 1) =>
             num_peaks_iter' >= num_peaks_iter]_vars
    /\ [](PassDone =>
            /\ num_peaks_iter = Len(all_peaks_final)
            /\ num_peaks_iter <= Len(clustered_list)
            /\ (kpc = "returned" => returned.num_peaks = num_peaks_iter))

\* the last pass kept more peaks than the one before it
C30_Witness ==
    /\ PassDone
    /\ num_exec >= 2
    /\ num_peaks_iter >
          Len(PruneOnce(all_peaks_final_temp, LastThreshold + 1))

====
